---- MODULE Spec2Model ----
(***************************************************************************)
(* A model of update_m3u_acestream.py: the retry loop of download_url, the *)
(* gateway fallback of try_download_with_gateways, and the driver main.    *)
(* URLs are the strings the program handles; str operations (find, in,     *)
(* slicing, lower) and urllib.parse.urlparse are computed on them.         *)
(***************************************************************************)
EXTENDS Integers, Sequences, FiniteSets, TLC

VARIABLES
    d_pc,          \* download_url: "idle", "loop", "broke", "returned", "failed"
    d_url,         \* download_url: parameter url
    d_req_ok,      \* download_url: Request(url, ...) at line 104 returns; url alone decides
    max_retries,   \* download_url: parameter max_retries
    attempt,       \* download_url: loop variable of `for attempt in range(max_retries)`
    last_error,    \* download_url: local last_error (the kind of the last failure)
    d_result,      \* download_url: the returned text
    requests,      \* log: outcome of every urlopen of the current download_url call
    sleeps,        \* log: every time.sleep of the current download_url call, in ms
    g_pc,          \* try_download_with_gateways: position in the function
    original_url,  \* try_download_with_gateways: parameter original_url
    locals,        \* try_download_with_gateways: the locals set by lines 161-176
    g_i,           \* try_download_with_gateways: index of gw in the running for loop
    g_result,      \* try_download_with_gateways: the returned text
    calls,         \* log: every download_url call made by try_download_with_gateways
    m_pc,          \* main: position in the function
    argv,          \* the command line
    args,          \* main: local args
    files,         \* the filesystem: the local paths that exist
    out_dir_blocked, \* the filesystem: the --out-dir path cannot become a directory
    log_blocked,   \* the filesystem: m3u_updater.log cannot be opened for appending
    log_made,      \* the filesystem: m3u_updater.log exists in the working directory
    out_dir_made,  \* the filesystem: main has created the output directory
    out_files,     \* the filesystem: the files the run has written, in order
    m_log,         \* the sources main has started to process, in order
    commits,       \* the number of git_commit_and_push calls main has made
    exit_code,     \* the exit status of the process, -1 while it runs
    r_pc,          \* replace_acestream_and_existing: "idle" or "ready"
    r_input,       \* replace_acestream_and_existing: the text first passed
    r_host,        \* replace_acestream_and_existing: parameter host
    r_port,        \* replace_acestream_and_existing: parameter port
    r_text,        \* replace_acestream_and_existing: the texts returned, call by call
    b_pc,          \* backup_file: "idle" or "ready"
    fs,            \* the filesystem of the output directory: file name -> content
    now,           \* the clock, in seconds
    b_log          \* log: the backups backup_file has made, as [dest, content]

d_vars == <<d_pc, d_url, d_req_ok, max_retries, attempt, last_error, d_result, requests, sleeps>>
g_vars == <<g_pc, original_url, locals, g_i, g_result, calls>>
m_vars == <<m_pc, argv, args, files, out_dir_blocked, log_blocked, log_made, out_dir_made, out_files,
           m_log, commits, exit_code>>
r_vars == <<r_pc, r_input, r_host, r_port, r_text>>
b_vars == <<b_pc, fs, now, b_log>>
o_vars == <<r_vars, b_vars>>
vars == <<d_vars, g_vars, m_vars, o_vars>>

(***************************************************************************)
(* Bounds of the model.                                                    *)
(***************************************************************************)
MaxRetriesArg == 3     \* largest max_retries a caller passes
MaxSources == 2        \* most --url and most --input options on a command line
MaxRewrites == 2       \* most calls of replace_acestream_and_existing in a row
MaxBackups == 2        \* most calls of backup_file
MaxClock == 1          \* the last second of the clock

(***************************************************************************)
(* Python str operations.  Indices are Python's (0-based), -1 is "absent". *)
(***************************************************************************)
\* the element of a one-element set; {e(x) : x \in {v}} computes v once and binds
\* it to x, as an assignment binds a local
Only(S) == CHOOSE r \in S : TRUE

Min(S) == CHOOSE x \in S : \A y \in S : x <= y

Max(S) == CHOOSE x \in S : \A y \in S : y <= x

\* s[a:b] for a, b >= 0: the bounds are clamped to the string
Slice(s, a, b) ==
    IF a >= Min({b, Len(s)}) THEN "" ELSE SubSeq(s, a + 1, Min({b, Len(s)}))

CharAt(s, i) == SubSeq(s, i + 1, i + 1)

\* s[i:i+1]: the character at i, "" past the end
At(s, i) == Slice(s, i, i + 1)

FindFrom(s, sub, start) ==
    LET hits == {i \in start..(Len(s) - Len(sub)) : Slice(s, i, i + Len(sub)) = sub}
    IN  IF hits = {} THEN -1 ELSE Min(hits)

Find(s, sub) == FindFrom(s, sub, 0)

RFind(s, sub) ==
    LET hits == {i \in 0..(Len(s) - Len(sub)) : Slice(s, i, i + Len(sub)) = sub}
    IN  IF hits = {} THEN -1 ELSE Max(hits)

Contains(s, sub) == Find(s, sub) # -1

\* the white space of str.strip() and of the class \s of a str pattern, among the
\* characters up to U+00FF: space, \t, \n, \r, \f, U+000B, U+001C to U+001F,
\* U+0085 and U+00A0
Whitespace == " \t\n\r\f "

\* s.lstrip(chars) and s.rstrip(chars) as indices: where the kept part starts
\* and where it ends
LStripIndex(s, chars) ==
    Min({k \in 0..Len(s) : k = Len(s) \/ ~Contains(chars, At(s, k))})

RStripIndex(s, chars) ==
    Max({k \in 0..Len(s) : k = 0 \/ ~Contains(chars, At(s, k - 1))})

\* s.strip()
Strip(s) ==
    Only({Slice(s, a, Max({a, RStripIndex(s, Whitespace)})) :
          a \in {LStripIndex(s, Whitespace)}})

\* s.replace(c, "") for one character c, from index k on
RECURSIVE RemoveFrom(_, _, _)
RemoveFrom(s, c, k) ==
    Only({IF h = -1 THEN Slice(s, k, Len(s))
          ELSE Slice(s, k, h) \o RemoveFrom(s, c, h + 1) : h \in {FindFrom(s, c, k)}})

UpperChars == "ABCDEFGHIJKLMNOPQRSTUVWXYZ"
LowerChars == "abcdefghijklmnopqrstuvwxyz"
SchemeChars == LowerChars \o UpperChars \o "0123456789+-."

LowerChar(c) ==
    LET i == Find(UpperChars, c)
    IN  IF i = -1 THEN c ELSE CharAt(LowerChars, i)

RECURSIVE LowerFrom(_, _)
LowerFrom(s, k) ==
    IF k >= Len(s) THEN "" ELSE LowerChar(CharAt(s, k)) \o LowerFrom(s, k + 1)

\* str.lower
Lower(s) == LowerFrom(s, 0)

\* str.rstrip("/")
RStripSlash(s) ==
    LET keep == {n \in 0..Len(s) : \A k \in n..(Len(s) - 1) : CharAt(s, k) = "/"}
    IN  Slice(s, 0, Min(keep))

\* str.split(c, 1), with an empty tail when c is absent
SplitAt(s, c) ==
    LET h == Find(s, c)
    IN  IF h # -1 THEN [head |-> Slice(s, 0, h), tail |-> Slice(s, h + 1, Len(s))]
        ELSE [head |-> s, tail |-> ""]

(***************************************************************************)
(* urllib.parse.urlparse as of CPython 3.11.4 (the interpreter installed   *)
(* is later; before 3.11.4 urlsplit did not strip the url), for URLs of    *)
(* the ASCII characters U+0001 to U+007F whose netloc does not hold both   *)
(* "[" and "]".                                                            *)
(***************************************************************************)
UsesParams == {"", "ftp", "hdl", "prospero", "http", "imap", "https", "shttp", "rtsp",
               "rtsps", "rtspu", "sip", "sips", "mms", "sftp", "tel"}

\* _WHATWG_C0_CONTROL_OR_SPACE, without U+0000
C0ControlOrSpace == " \t\n\r\f"

\* urlsplit: url.lstrip(_WHATWG_C0_CONTROL_OR_SPACE), then tab, CR and LF are
\* removed wherever they are (_UNSAFE_URL_BYTES_TO_REMOVE)
CleanUrl(url) ==
    Only({ Only({ Only({ RemoveFrom(c, "\n", 0) : c \in {RemoveFrom(b, "\r", 0)} }) :
                  b \in {RemoveFrom(a, "\t", 0)} }) :
           a \in {Slice(url, LStripIndex(url, C0ControlOrSpace), Len(url))} })

\* urlsplit: `raise ValueError("Invalid IPv6 URL")` for a netloc with one bracket
\* and not the other
InvalidIPv6(netloc) == Contains(netloc, "[") # Contains(netloc, "]")

\* urlsplit: `i = url.find(':')` and the scheme test that follows
SplitScheme(url) ==
    LET i == Find(url, ":")
    IN  IF /\ i > 0
           /\ Contains(LowerChars \o UpperChars, CharAt(url, 0))
           /\ \A k \in 0..(i - 1) : Contains(SchemeChars, CharAt(url, k))
        THEN [scheme |-> Lower(Slice(url, 0, i)), url |-> Slice(url, i + 1, Len(url))]
        ELSE [scheme |-> "", url |-> url]

SplitNetloc(url, start) ==
    LET found == {FindFrom(url, c, start) : c \in {"/", "?", "#"}} \ {-1}
        delim == Min(found \cup {Len(url)})
    IN  [netloc |-> Slice(url, start, delim), rest |-> Slice(url, delim, Len(url))]

\* urlsplit: `if url[:2] == '//'`
SplitAuthority(url) ==
    IF Slice(url, 0, 2) = "//" THEN SplitNetloc(url, 2) ELSE [netloc |-> "", rest |-> url]

\* urlsplit: `if '?' in url`, and the result
urlsplit3(a, b, c) ==
    Only({[scheme |-> a.scheme, netloc |-> b.netloc, path |-> d.head,
           query |-> d.tail, fragment |-> c.tail,
           error |-> IF InvalidIPv6(b.netloc) THEN "ValueError" ELSE ""] :
          d \in {SplitAt(c.head, "?")}})

\* urlsplit: `if allow_fragments and '#' in url`
urlsplit2(a, b) == Only({urlsplit3(a, b, c) : c \in {SplitAt(b.rest, "#")}})

urlsplit1(a) == Only({urlsplit2(a, b) : b \in {SplitAuthority(a.url)}})

\* the fields of the SplitResult, or error "ValueError" when urlsplit raises
urlsplit(url) ==
    Only({ Only({urlsplit1(a) : a \in {SplitScheme(clean)}}) : clean \in {CleanUrl(url)} })

SplitParams(url) ==
    LET i == IF Contains(url, "/") THEN FindFrom(url, ";", RFind(url, "/"))
             ELSE Find(url, ";")
    IN  IF i < 0 THEN [path |-> url, params |-> ""]
        ELSE [path |-> Slice(url, 0, i), params |-> Slice(url, i + 1, Len(url))]

\* urlparse: `if scheme in uses_params and ';' in url`, and the result
urlparse1(split) ==
    LET pp == IF split.scheme \in UsesParams /\ Contains(split.path, ";")
              THEN SplitParams(split.path)
              ELSE [path |-> split.path, params |-> ""]
    IN  [scheme |-> split.scheme, netloc |-> split.netloc, path |-> pp.path,
         params |-> pp.params, query |-> split.query, fragment |-> split.fragment,
         error |-> split.error]

urlparse(url) == Only({urlparse1(split) : split \in {urlsplit(url)}})

(***************************************************************************)
(* The network, as download_url sees it: what one pass through lines       *)
(* 104-111 (build the Request, urlopen, read, decode) ends in.             *)
(***************************************************************************)
HttpCodes == {400, 404, 429, 499, 500, 503}
Bodies == {"", "#EXTM3U", "#EXTINF:-1,tv"}

Ok(b) == [kind |-> "ok", code |-> 200, body |-> b]
HTTPError(c) == [kind |-> "HTTPError", code |-> c, body |-> ""]
URLError == [kind |-> "URLError", code |-> 0, body |-> ""]
SocketTimeout == [kind |-> "timeout", code |-> 0, body |-> ""]
OtherException == [kind |-> "Exception", code |-> 0, body |-> ""]
None == [kind |-> "None", code |-> 0, body |-> ""]

\* urllib.parse.unwrap: the url stripped, without a pair of angle brackets
\* around it and without a leading "URL:"
Unwrap2(url) == IF Slice(url, 0, 4) = "URL:" THEN Strip(Slice(url, 4, Len(url))) ELSE url

Unwrap1(url) ==
    IF Slice(url, 0, 1) = "<" /\ Slice(url, Len(url) - 1, Len(url)) = ">"
    THEN Only({Unwrap2(u) : u \in {Strip(Slice(url, 1, Len(url) - 1))}})
    ELSE Unwrap2(url)

Unwrap(url) == Only({Unwrap1(u) : u \in {Strip(url)}})

\* urllib.parse._splittag: the url up to its last "#"
SplitTag(url) ==
    Only({IF h = -1 THEN url ELSE Slice(url, 0, h) : h \in {RFind(url, "#")}})

\* urllib.parse._splittype: '([^/:]+):(.*)' matches at the start
SplitType(url) ==
    LET i == Find(url, ":")
    IN  i > 0 /\ ~Contains(Slice(url, 0, i), "/")

\* urllib.request.Request(url) (full_url.setter, _parse) raises
\* ValueError("unknown url type") unless the url, unwrapped and without its
\* fragment, starts with a type
HasType(url) ==
    Only({ Only({SplitType(t) : t \in {SplitTag(u)}}) : u \in {Unwrap(url)} })

\* urllib.request.Request(url) returns: the url has a type, and request_host,
\* which __init__ calls, can urlparse the full url
RequestAccepts(url) ==
    HasType(url) /\ Only({urlparse(u).error = "" : u \in {Unwrap(url)}})

\* what an attempt ends in, given whether the Request could be built
OutcomesWhen(accepted) ==
    IF accepted
    THEN {Ok(b) : b \in Bodies} \cup {HTTPError(c) : c \in HttpCodes}
         \cup {URLError, SocketTimeout, OtherException}
    ELSE {OtherException}

Outcomes(url) == OutcomesWhen(RequestAccepts(url))

(***************************************************************************)
(* download_url (lines 78-140).                                            *)
(***************************************************************************)
DefaultMaxRetries == 3

\* line 123: client errors other than 429 leave the loop
IsTerminalStatus(code) == 400 <= code /\ code < 500 /\ code # 429

\* Breaks, were line 123-124 missing: a client error is retried like a server error
Breaks_RetriesClientErrors(o) == o.kind \notin {"HTTPError", "URLError", "timeout"}

\* Breaks, were line 123 `if e.code >= 400`: every HTTP error leaves the loop
Breaks_ServerErrorsTerminal(o) == o.kind \notin {"URLError", "timeout"}

\* lines 113-132: does the except clause that catches this failure break?
Breaks(o) ==
    CASE o.kind = "HTTPError" -> IsTerminalStatus(o.code)
      [] o.kind \in {"URLError", "timeout"} -> FALSE
      [] OTHER -> TRUE

\* line 135: is there a backoff sleep after a failed attempt?
SleepsAfter(a, n) == a < n - 1

\* WaitTime, were line 136 `wait_time = 0.5`: the wait never grows
WaitTime_Constant(a) == 500

\* line 136, in milliseconds
WaitTime(a) == (2 ^ a) * 500

\* the entry of download_url(url, max_retries=n): line 101
EnterDownload(url, n) ==
    /\ d_pc' = "loop"
    /\ d_url' = url
    /\ d_req_ok' = RequestAccepts(url)
    /\ max_retries' = n
    /\ attempt' = 0
    /\ last_error' = None
    /\ d_result' = ""
    /\ requests' = <<>>
    /\ sleeps' = <<>>

\* one iteration of the for loop, lines 102-138
DownloadAttempt ==
    /\ d_pc = "loop"
    /\ attempt < max_retries
    /\ \E o \in OutcomesWhen(d_req_ok) :
         /\ requests' = Append(requests, o)
         /\ IF o.kind = "ok"
            THEN /\ d_pc' = "returned"
                 /\ d_result' = o.body
                 /\ UNCHANGED <<attempt, last_error, sleeps>>
            ELSE /\ last_error' = o
                 /\ d_result' = d_result
                 /\ IF Breaks(o)
                    THEN /\ d_pc' = "broke"
                         /\ UNCHANGED <<attempt, sleeps>>
                    ELSE /\ d_pc' = "loop"
                         /\ attempt' = attempt + 1
                         /\ sleeps' = IF SleepsAfter(attempt, max_retries)
                                      THEN Append(sleeps, WaitTime(attempt))
                                      ELSE sleeps
    /\ UNCHANGED <<d_url, d_req_ok, max_retries>>
    /\ UNCHANGED <<g_vars, m_vars, o_vars>>

\* line 140, reached by break or when range(max_retries) is exhausted
DownloadRaise ==
    /\ d_pc = "broke" \/ (d_pc = "loop" /\ attempt >= max_retries)
    /\ d_pc' = "failed"
    /\ UNCHANGED <<d_url, d_req_ok, max_retries, attempt, last_error, d_result, requests, sleeps>>
    /\ UNCHANGED <<g_vars, m_vars, o_vars>>

(***************************************************************************)
(* try_download_with_gateways (lines 142-227).                             *)
(***************************************************************************)
ALTERNATIVE_GATEWAYS ==
    <<"https://cloudflare-ipfs.com", "https://dweb.link",
      "https://gateway.pinata.cloud", "https://ipfs.io">>

\* lines 162-176, given parsed
Locals1(url, p) ==
    LET is_ipfs == Contains(url, "/ipfs/")
        is_ipns == Contains(url, "/ipns/")
        idx == Find(url, IF is_ipfs THEN "/ipfs/" ELSE "/ipns/")
    IN  [parsed |-> p,
         path |-> p.path,
         netloc |-> Lower(p.netloc),
         query |-> IF p.query # "" THEN "?" \o p.query ELSE "",
         fragment |-> IF p.fragment # "" THEN "#" \o p.fragment ELSE "",
         is_ipfs_path |-> is_ipfs \/ is_ipns,
         ipfs_path |-> IF is_ipfs \/ is_ipns
                       THEN (IF idx # -1 THEN Slice(url, idx, Len(url)) ELSE p.path)
                       ELSE ""]

\* lines 161-176
Locals(url) == Only({Locals1(url, p) : p \in {urlparse(url)}})

\* lines 181 and 195
Candidate(gw) == RStripSlash(gw) \o locals.ipfs_path \o locals.query \o locals.fragment

\* line 213
DefaultCandidate == "https://ipfs.io" \o locals.ipfs_path \o locals.query \o locals.fragment

\* line 179
TriesGatewaysFirst == Contains(locals.netloc, "ipfs.io") /\ locals.is_ipfs_path

\* line 192
SkipsGateway(gw) == Contains(locals.parsed.scheme \o "://" \o locals.parsed.netloc, gw)

\* line 203
TriesOriginal == locals.parsed.scheme \in {"http", "https"}

\* line 211
TriesDefaultGateway == locals.is_ipfs_path /\ locals.parsed.scheme = ""

\* line 220
TriesFinal ==
    original_url # locals.parsed.scheme \o "://" \o locals.parsed.netloc \o locals.parsed.path

\* download_url(candidate, timeout=timeout): max_retries keeps its default
CallDownload(candidate, gw) ==
    /\ EnterDownload(candidate, DefaultMaxRetries)
    /\ calls' = Append(calls, [url |-> candidate, at |-> g_pc, gw |-> gw,
                               max_retries |-> DefaultMaxRetries,
                               status |-> "running", text |-> ""])

\* lines 161-176: urlparse at line 161 raises ValueError for a netloc with one
\* bracket and not the other; the function has no handler around it
GwParse ==
    /\ g_pc = "parse" /\ d_pc = "idle"
    /\ g_pc' = IF locals.parsed.error # "" THEN "raised" ELSE "first_loop"
    /\ UNCHANGED <<original_url, locals, g_i, g_result, calls>>
    /\ UNCHANGED <<d_vars, m_vars, o_vars>>

\* lines 179-186: the for loop entered when the host is ipfs.io
GwFirstLoop ==
    /\ g_pc = "first_loop" /\ d_pc = "idle"
    /\ IF TriesGatewaysFirst /\ g_i <= Len(ALTERNATIVE_GATEWAYS)
       THEN /\ CallDownload(Candidate(ALTERNATIVE_GATEWAYS[g_i]), g_i)
            /\ UNCHANGED <<g_pc, g_i>>
       ELSE /\ g_pc' = "second_loop"
            /\ g_i' = 1
            /\ UNCHANGED <<d_vars, calls>>
    /\ UNCHANGED <<original_url, locals, g_result, m_vars, o_vars>>

\* lines 189-200: the for loop over every gateway not skipped
GwSecondLoop ==
    /\ g_pc = "second_loop" /\ d_pc = "idle"
    /\ IF locals.is_ipfs_path /\ g_i <= Len(ALTERNATIVE_GATEWAYS)
       THEN IF SkipsGateway(ALTERNATIVE_GATEWAYS[g_i])
            THEN /\ g_i' = g_i + 1
                 /\ UNCHANGED <<g_pc, d_vars, calls>>
            ELSE /\ CallDownload(Candidate(ALTERNATIVE_GATEWAYS[g_i]), g_i)
                 /\ UNCHANGED <<g_pc, g_i>>
       ELSE /\ g_pc' = "original"
            /\ g_i' = 0
            /\ UNCHANGED <<d_vars, calls>>
    /\ UNCHANGED <<original_url, locals, g_result, m_vars, o_vars>>

\* lines 203-208
GwOriginal ==
    /\ g_pc = "original" /\ d_pc = "idle"
    /\ IF TriesOriginal
       THEN /\ CallDownload(original_url, 0)
            /\ UNCHANGED g_pc
       ELSE /\ g_pc' = "default_gateway"
            /\ UNCHANGED <<d_vars, calls>>
    /\ UNCHANGED <<original_url, locals, g_i, g_result, m_vars, o_vars>>

\* lines 211-217
GwDefaultGateway ==
    /\ g_pc = "default_gateway" /\ d_pc = "idle"
    /\ IF TriesDefaultGateway
       THEN /\ CallDownload(DefaultCandidate, 0)
            /\ UNCHANGED g_pc
       ELSE /\ g_pc' = "final"
            /\ UNCHANGED <<d_vars, calls>>
    /\ UNCHANGED <<original_url, locals, g_i, g_result, m_vars, o_vars>>

\* lines 220-227: the final attempt, or the RuntimeError of line 227
GwFinal ==
    /\ g_pc = "final" /\ d_pc = "idle"
    /\ IF TriesFinal
       THEN /\ CallDownload(original_url, 0)
            /\ UNCHANGED g_pc
       ELSE /\ g_pc' = "failed"
            /\ UNCHANGED <<d_vars, calls>>
    /\ UNCHANGED <<original_url, locals, g_i, g_result, m_vars, o_vars>>

\* where control goes when the except RuntimeError clause of a section ends
AfterFailure(at) ==
    CASE at = "first_loop" -> "first_loop"
      [] at = "second_loop" -> "second_loop"
      [] at = "original" -> "default_gateway"
      [] at = "default_gateway" -> "final"
      [] at = "final" -> "failed"

InCall == g_pc \in {"first_loop", "second_loop", "original", "default_gateway", "final"}

\* GwCallReturns, were the `return` of line 184 a plain assignment: the text is
\* kept and the next candidate is tried all the same
GwCallReturns_KeepsTrying ==
    /\ InCall /\ d_pc = "returned"
    /\ g_result' = d_result
    /\ g_pc' = AfterFailure(g_pc)
    /\ g_i' = IF g_pc \in {"first_loop", "second_loop"} THEN g_i + 1 ELSE g_i
    /\ calls' = [calls EXCEPT ![Len(calls)].status = "ok", ![Len(calls)].text = d_result]
    /\ d_pc' = "idle"
    /\ UNCHANGED <<d_url, d_req_ok, max_retries, attempt, last_error, d_result, requests, sleeps>>
    /\ UNCHANGED <<original_url, locals, m_vars, o_vars>>

\* `return download_url(...)` (lines 184, 198, 206, 215, 223): the call returned
GwCallReturns ==
    /\ InCall /\ d_pc = "returned"
    /\ g_result' = d_result
    /\ g_pc' = "returned"
    /\ calls' = [calls EXCEPT ![Len(calls)].status = "ok", ![Len(calls)].text = d_result]
    /\ d_pc' = "idle"
    /\ UNCHANGED <<d_url, d_req_ok, max_retries, attempt, last_error, d_result, requests, sleeps>>
    /\ UNCHANGED <<original_url, locals, g_i, m_vars, o_vars>>

\* `except RuntimeError` (lines 185, 199, 207, 216, 224): the call raised
GwCallFails ==
    /\ InCall /\ d_pc = "failed"
    /\ g_pc' = AfterFailure(g_pc)
    /\ g_i' = IF g_pc \in {"first_loop", "second_loop"} THEN g_i + 1 ELSE g_i
    /\ calls' = [calls EXCEPT ![Len(calls)].status = "failed"]
    /\ d_pc' = "idle"
    /\ UNCHANGED <<d_url, d_req_ok, max_retries, attempt, last_error, d_result, requests, sleeps>>
    /\ UNCHANGED <<original_url, locals, g_result, m_vars, o_vars>>

(***************************************************************************)
(* main (lines 451-572) and parse_arguments (lines 315-429).               *)
(***************************************************************************)
NoArgs == [url |-> <<>>, input |-> <<>>, max_retries |-> 0,
           dry_run |-> FALSE, backup |-> FALSE, commit |-> FALSE]

\* line 453: parse_arguments returns the options, or p.error exits with status 2
ParseArguments ==
    /\ m_pc = "parse_arguments"
    /\ IF argv.url = <<>> /\ argv.input = <<>>
       THEN /\ m_pc' = "exited"
            /\ exit_code' = 2
            /\ UNCHANGED args
       ELSE /\ m_pc' = "setup"
            /\ args' = argv
            /\ UNCHANGED exit_code
    /\ UNCHANGED <<argv, files, out_dir_blocked, log_blocked, log_made, out_dir_made, out_files,
                   m_log, commits>>
    /\ UNCHANGED <<d_vars, g_vars, o_vars>>

\* lines 456-464.  setup_logging opens m3u_updater.log (logging.FileHandler,
\* line 444), or raises when it cannot (the name is a directory, a dangling
\* link): the process exits with status 1 from line 456.  Then
\* out_dir.mkdir(parents=True, exist_ok=True) makes the output directory, or
\* raises (FileExistsError when the path names a regular file): the process
\* exits with status 1 from line 464.  Nothing catches either exception.
SetupOutDir ==
    /\ m_pc = "setup"
    /\ IF log_blocked
       THEN /\ m_pc' = "exited"
            /\ exit_code' = 1
            /\ UNCHANGED <<log_made, out_dir_made>>
       ELSE /\ log_made' = TRUE
            /\ IF out_dir_blocked
               THEN /\ m_pc' = "exited"
                    /\ exit_code' = 1
                    /\ UNCHANGED out_dir_made
               ELSE /\ out_dir_made' = TRUE
                    /\ m_pc' = "reparse"
                    /\ UNCHANGED exit_code
    /\ UNCHANGED <<argv, args, files, out_dir_blocked, log_blocked, out_files, m_log, commits>>
    /\ UNCHANGED <<d_vars, g_vars, o_vars>>

\* line 465: `args = p.parse_args()`; main has no name p, nor has the module, so
\* the statement raises NameError, nothing catches it and the interpreter exits
\* with status 1.  Lines 468-572 are never reached.
ReparseArguments ==
    /\ m_pc = "reparse"
    /\ m_pc' = "exited"
    /\ exit_code' = 1
    /\ UNCHANGED <<argv, args, files, out_dir_blocked, log_blocked, log_made, out_dir_made,
                   out_files, m_log, commits>>
    /\ UNCHANGED <<d_vars, g_vars, o_vars>>

(***************************************************************************)
(* replace_acestream_and_existing (lines 61-76) and the patterns it        *)
(* substitutes (lines 43-48).  A match is the index after its last         *)
(* character, -1 is "no match here".  Texts are of the characters U+0001   *)
(* to U+00FF, the ones a string of the model can hold.                     *)
(***************************************************************************)
HexDigits == "0123456789abcdefABCDEF"

\* the class \d of a str pattern among the characters up to U+00FF: the ten
\* ASCII digits (above U+00FF it has the decimal digits of the other scripts)
DecDigits == "0123456789"

\* [0-9A-Fa-f]
IsHex(c) == c # "" /\ Contains(HexDigits, c)

\* \d
IsDigit(c) == c # "" /\ Contains(DecDigits, c)

\* [^/\s:]
IsHostChar(c) == c # "" /\ ~Contains("/:" \o Whitespace, c)

\* a literal of a pattern
LiteralAt(text, i, lit) == Slice(text, i, i + Len(lit)) = lit

\* HEX40 (line 43): forty hexadecimal characters, whatever follows them
HEX40(text, i) ==
    IF i + 40 <= Len(text) /\ \A k \in i..(i + 39) : IsHex(At(text, k))
    THEN i + 40 ELSE -1

\* [^/\s:]+ is greedy: the index after the run of host characters from i
RECURSIVE HostRun(_, _)
HostRun(text, i) ==
    IF IsHostChar(At(text, i)) THEN HostRun(text, i + 1) ELSE i

\* the index after the run of digits from i
RECURSIVE DigitRun(_, _)
DigitRun(text, i) ==
    IF IsDigit(At(text, i)) THEN DigitRun(text, i + 1) ELSE i

\* str(port) of an int
RECURSIVE DecimalOf(_)
DecimalOf(n) ==
    IF n < 0 THEN "-" \o DecimalOf(0 - n)
    ELSE IF n < 10 THEN At(DecDigits, n)
    ELSE DecimalOf(n \div 10) \o At(DecDigits, n % 10)

\* PAT_ACESTREAM (line 44) matched at i: [start, end, h]
PAT_ACESTREAM(text, i) ==
    IF LiteralAt(text, i, "acestream://")
    THEN Only({[start |-> i, end |-> e, h |-> Slice(text, i + 12, e)] :
               e \in {HEX40(text, i + 12)}})
    ELSE [start |-> i, end |-> -1, h |-> ""]

\* line 47 after the port's "/": (?:(?:ace/getstream\?id=)?(?P<h>HEX40)); the
\* optional literal is tried first, then skipped
PathHash(text, q) ==
    IF LiteralAt(text, q, "ace/getstream?id=") /\ HEX40(text, q + 17) # -1
    THEN [from |-> q + 17, end |-> q + 57]
    ELSE [from |-> q, end |-> HEX40(text, q)]

\* line 47 after the optional scheme: host, ":", port of 1 to 5 digits, "/",
\* hash.  Neither run can give a character back: the character that must follow
\* the host (":") is no host character, the one after the port ("/") no digit.
HostPortHash(text, j) ==
    Only({ IF he > j /\ At(text, he) = ":"
           THEN Only({ IF pe - (he + 1) \in 1..5 /\ At(text, pe) = "/"
                       THEN PathHash(text, pe + 1)
                       ELSE [from |-> pe, end |-> -1] :
                       pe \in {DigitRun(text, he + 1)} })
           ELSE [from |-> he, end |-> -1] :
           he \in {HostRun(text, j)} })

\* (?:https?://)?: the index after the scheme at i, i when there is none
SchemeEnd(text, i) ==
    IF LiteralAt(text, i, "http://") THEN i + 7
    ELSE IF LiteralAt(text, i, "https://") THEN i + 8
    ELSE i

\* PAT_HOST_PORT_HASH (lines 46-48) matched at i: with the scheme when there is
\* one and the rest matches after it, else without
PAT_HOST_PORT_HASH(text, i) ==
    Only({ IF m.end # -1 THEN [start |-> i, end |-> m.end, h |-> Slice(text, m.from, m.end)]
           ELSE IF SchemeEnd(text, i) = i THEN [start |-> i, end |-> -1, h |-> ""]
           ELSE Only({ [start |-> i, end |-> n.end, h |-> Slice(text, n.from, n.end)] :
                       n \in {HostPortHash(text, i)} }) :
           m \in {HostPortHash(text, SchemeEnd(text, i))} })

\* lines 65 and 73: the text both callbacks return for a match
Canonical(host, port, h) ==
    "http://" \o host \o ":" \o DecimalOf(port) \o "/ace/getstream?id=" \o h

\* line 66: PAT_ACESTREAM.sub(repl_acestream, text) from index i on: the
\* leftmost match is replaced, the text before it kept, and the scan goes on
\* after the match
RECURSIVE SubAcestream(_, _, _, _)
SubAcestream(text, i, host, port) ==
    Only({ IF starts = {} THEN Slice(text, i, Len(text))
           ELSE Only({ Slice(text, i, m.start) \o Canonical(host, port, m.h)
                           \o SubAcestream(text, m.end, host, port) :
                       m \in {PAT_ACESTREAM(text, Min(starts))} }) :
           starts \in {{k \in i..(Len(text) - 1) : PAT_ACESTREAM(text, k).end # -1}} })

\* line 74: PAT_HOST_PORT_HASH.sub(repl_hostport, text) from index i on
RECURSIVE SubHostPort(_, _, _, _)
SubHostPort(text, i, host, port) ==
    Only({ IF starts = {} THEN Slice(text, i, Len(text))
           ELSE Only({ Slice(text, i, m.start) \o Canonical(host, port, m.h)
                           \o SubHostPort(text, m.end, host, port) :
                       m \in {PAT_HOST_PORT_HASH(text, Min(starts))} }) :
           starts \in {{k \in i..(Len(text) - 1) : PAT_HOST_PORT_HASH(text, k).end # -1}} })

\* lines 61-76: the second substitution reads the result of the first
replace_acestream_and_existing(text, host, port) ==
    Only({ SubHostPort(t, 0, host, port) : t \in {SubAcestream(text, 0, host, port)} })

\* a call of replace_acestream_and_existing: the first on the input, each later
\* one on the text the call before returned
Rewrite ==
    /\ r_pc = "ready"
    /\ Len(r_text) < MaxRewrites
    /\ r_text' = Append(r_text,
           replace_acestream_and_existing(
               IF r_text = <<>> THEN r_input ELSE r_text[Len(r_text)], r_host, r_port))
    /\ UNCHANGED <<r_pc, r_input, r_host, r_port>>
    /\ UNCHANGED <<d_vars, g_vars, m_vars, b_vars>>

(***************************************************************************)
(* backup_file (lines 229-233), now_ts (lines 58-59) and the write of an   *)
(* output file that follows a backup (lines 494-499).                      *)
(***************************************************************************)
\* two decimal digits, as strftime's %S
TwoDigits(n) == At(DecDigits, n \div 10) \o At(DecDigits, n % 10)

\* lines 58-59: utcnow().strftime("%Y%m%dT%H%M%SZ"); the clock counts the seconds
\* since 2024-01-01T00:00:00Z and stays within that minute
now_ts(clock) == "20240101T0000" \o TwoDigits(clock) \o "Z"

\* line 231: path.with_name(path.name + f".bak.{ts}")
BackupDest(path, ts) == path \o ".bak." \o ts

\* lines 229-233: shutil.copy2 creates dest, or replaces it when it exists
backup_file(path) ==
    /\ b_pc = "ready"
    /\ path \in DOMAIN fs
    /\ Len(b_log) < MaxBackups
    /\ LET dest == BackupDest(path, now_ts(now))
       IN  /\ fs' = (dest :> fs[path]) @@ fs
           /\ b_log' = Append(b_log, [dest |-> dest, content |-> fs[path]])
    /\ UNCHANGED <<b_pc, now>>
    /\ UNCHANGED <<d_vars, g_vars, m_vars, r_vars>>

\* lines 497-499: out_path.write_text(new_text)
WriteOutput(path, content) ==
    /\ b_pc = "ready"
    /\ fs' = (path :> content) @@ fs
    /\ UNCHANGED <<b_pc, now, b_log>>
    /\ UNCHANGED <<d_vars, g_vars, m_vars, r_vars>>

\* a second passes
Tick ==
    /\ b_pc = "ready"
    /\ now < MaxClock
    /\ now' = now + 1
    /\ UNCHANGED <<b_pc, fs, b_log>>
    /\ UNCHANGED <<d_vars, g_vars, m_vars, r_vars>>

(***************************************************************************)
(* The inputs.                                                             *)
(***************************************************************************)
DownloadUrls ==
    {"http://example.com/list.m3u", "example.com/list.m3u",
     " http://example.com/list.m3u", "list.m3u#t:1"}

GatewayUrls ==
    {"https://ipfs.io/ipfs/X",
     "https://dweb.link/ipfs/X?a=b",
     "https://Gateway.Pinata.Cloud/ipns/n#f",
     "ipfs.io/ipfs/X",
     "http://example.com/list.m3u",
     "http://example.com/list.m3u?x=1",
     "http://example.com/a;p",
     "ftp://example.com/list.m3u",
     " http://example.com/list.m3u",
     "http://[::1/ipfs/X"}

\* a content identifier, and runs of 39 and of 41 hexadecimal characters
ID == "2773b39926d15dd3d9495d94c4050604792d7031"
Hex39 == Slice(ID, 0, 39)
Hex41 == ID \o "a"

RewriteTexts ==
    { "acestream://" \o ID,
      "1.2.3.4:6878/" \o ID,
      "http://1.2.3.4:6878/" \o ID,
      "https://tv.example:80/" \o ID,
      "1.2.3.4:6878/ace/getstream?id=" \o ID,
      "http://1.2.3.4:6878/ace/getstream?id=" \o ID,
      "https://tv.example:80/ace/getstream?id=" \o ID,
      "acestream://" \o Hex41,
      "1.2.3.4:6878/" \o Hex41,
      "http://1.2.3.4:6878/ace/getstream?id=" \o Hex41,
      "acestream://" \o Hex39 \o "z",
      "1.2.3.4:6878/" \o Hex39,
      "x:123456/" \o ID,
      "x:/" \o ID,
      "rtsp://h:1/" \o ID,
      "HTTP://h:1/" \o ID,
      "ACESTREAM://" \o ID,
      "#EXTM3U\n#EXTINF:-1,tv\nacestream://" \o ID \o "\n",
      "a b:1/" \o ID \o " c:2/ace/getstream?id=" \o ID,
      "ab:1/" \o ID,
      "#EXTINF:-1,tv",
      "" }

RewriteHosts == {"127.0.0.1", "localhost", "[::1]"}
RewritePorts == {6878, 80}

BackupPaths == {"a.m3u", "playlist.m3u"}
Contents == {"#EXTM3U", "#EXTINF:-1,tv"}

MainUrls == {"http://a.example/a.m3u", "http://c.example/c.m3u"}
MainPaths == {"b.m3u", "d.m3u"}

SeqsUpTo(S, n) == UNION {[1..k -> S] : k \in 0..n}

IdleDownload ==
    /\ d_pc = "idle" /\ d_url = "" /\ d_req_ok = FALSE /\ max_retries = 0 /\ attempt = 0
    /\ last_error = None /\ d_result = "" /\ requests = <<>> /\ sleeps = <<>>

IdleGateways ==
    /\ g_pc = "idle" /\ original_url = "" /\ locals = Locals("")
    /\ g_i = 0 /\ g_result = "" /\ calls = <<>>

IdleMain ==
    /\ m_pc = "idle" /\ argv = NoArgs /\ args = NoArgs /\ files = {}
    /\ out_dir_blocked = FALSE /\ log_blocked = FALSE /\ log_made = FALSE
    /\ out_dir_made = FALSE /\ out_files = <<>> /\ m_log = <<>> /\ commits = 0
    /\ exit_code = -1

IdleRewrite ==
    /\ r_pc = "idle" /\ r_input = "" /\ r_host = "" /\ r_port = 0 /\ r_text = <<>>

IdleBackup ==
    /\ b_pc = "idle" /\ fs = <<>> /\ now = 0 /\ b_log = <<>>

(***************************************************************************)
(* download_url called with any url and max_retries.                       *)
(***************************************************************************)
InitDownload ==
    /\ d_pc = "loop"
    /\ d_url \in DownloadUrls
    /\ d_req_ok = RequestAccepts(d_url)
    /\ max_retries \in 0..MaxRetriesArg
    /\ attempt = 0 /\ last_error = None /\ d_result = ""
    /\ requests = <<>> /\ sleeps = <<>>
    /\ IdleGateways /\ IdleMain /\ IdleRewrite /\ IdleBackup

NextDownload == DownloadAttempt \/ DownloadRaise

SpecDownload == InitDownload /\ [][NextDownload]_vars

FairSpecDownload == SpecDownload /\ WF_vars(NextDownload)

(***************************************************************************)
(* try_download_with_gateways called with any url.                         *)
(***************************************************************************)
InitGateways ==
    /\ g_pc = "parse"
    /\ original_url \in GatewayUrls
    /\ locals = Locals(original_url)
    /\ g_i = 1 /\ g_result = "" /\ calls = <<>>
    /\ IdleDownload /\ IdleMain /\ IdleRewrite /\ IdleBackup

NextGateways ==
    \/ GwParse
    \/ GwFirstLoop \/ GwSecondLoop \/ GwOriginal \/ GwDefaultGateway \/ GwFinal
    \/ GwCallReturns \/ GwCallFails
    \/ DownloadAttempt \/ DownloadRaise

SpecGateways == InitGateways /\ [][NextGateways]_vars

(***************************************************************************)
(* replace_acestream_and_existing called with any text, host and port, and *)
(* then on its own result.                                                 *)
(***************************************************************************)
InitRewrite ==
    /\ r_pc = "ready"
    /\ r_input \in RewriteTexts
    /\ r_host \in RewriteHosts
    /\ r_port \in RewritePorts
    /\ r_text = <<>>
    /\ IdleDownload /\ IdleGateways /\ IdleMain /\ IdleBackup

NextRewrite == Rewrite

SpecRewrite == InitRewrite /\ [][NextRewrite]_vars

(***************************************************************************)
(* backup_file called on any output file at any time, between the writes   *)
(* of the output files.                                                    *)
(***************************************************************************)
InitBackup ==
    /\ b_pc = "ready"
    /\ fs \in UNION {[S -> Contents] : S \in SUBSET BackupPaths}
    /\ now = 0
    /\ b_log = <<>>
    /\ IdleDownload /\ IdleGateways /\ IdleMain /\ IdleRewrite

NextBackup ==
    \/ \E path \in BackupPaths : backup_file(path)
    \/ \E path \in BackupPaths, content \in Contents : WriteOutput(path, content)
    \/ Tick

SpecBackup == InitBackup /\ [][NextBackup]_vars

(***************************************************************************)
(* The program: main run on any command line.                              *)
(***************************************************************************)
Init ==
    /\ m_pc = "parse_arguments"
    /\ argv \in [url : SeqsUpTo(MainUrls, MaxSources),
                 input : SeqsUpTo(MainPaths, MaxSources),
                 max_retries : 1..MaxRetriesArg,
                 dry_run : BOOLEAN, backup : BOOLEAN, commit : BOOLEAN]
    /\ args = NoArgs
    /\ files \in SUBSET MainPaths
    /\ out_dir_blocked \in BOOLEAN
    /\ log_blocked \in BOOLEAN
    /\ log_made \in BOOLEAN
    /\ out_dir_made = FALSE /\ out_files = <<>> /\ m_log = <<>> /\ commits = 0
    /\ exit_code = -1
    /\ IdleDownload /\ IdleGateways /\ IdleRewrite /\ IdleBackup

Next == ParseArguments \/ SetupOutDir \/ ReparseArguments

Spec == Init /\ [][Next]_vars

(***************************************************************************)
(* The claims.                                                             *)
(***************************************************************************)
\* a failure the retry policy calls terminal: a 4xx status other than 429, or an
\* exception that is no HTTP error, no URL error and no timeout
TerminalFailure(o) ==
    \/ o.kind = "HTTPError" /\ o.code \in 400..499 /\ o.code # 429
    \/ o.kind = "Exception"

\* a failure the retry policy calls retriable: 5xx, 429, URLError or timeout
RetriableFailure(o) ==
    \/ o.kind = "HTTPError" /\ (o.code \in 500..599 \/ o.code = 429)
    \/ o.kind \in {"URLError", "timeout"}

\* C1: in download_url an attempt that fails with a terminal failure is the last
\* attempt for the url: no attempt and no backoff wait follows it (every wait of
\* the call precedes it), and the call is on its way to fail or has failed.
C1_TerminalAttemptIsLast ==
    \A i \in 1..Len(requests) :
        TerminalFailure(requests[i]) =>
            /\ i = Len(requests)
            /\ Len(sleeps) = i - 1
            /\ d_pc \in {"broke", "failed"}

\* C1 witness: a url answering 404 was requested exactly once although two or
\* more attempts were allowed, and the call failed.
C1_Witness ==
    /\ d_pc = "failed"
    /\ max_retries >= 2
    /\ requests = <<HTTPError(404)>>
    /\ sleeps = <<>>

C2_ExactlyNAttemptsInv ==
    (max_retries >= 1 /\ \A i \in 1..Len(requests) : RetriableFailure(requests[i])) =>
        /\ Len(requests) <= max_retries
        /\ d_pc \in {"loop", "failed"}
        /\ d_pc = "failed" => Len(requests) = max_retries

\* C2: download_url called with max_retries = N >= 1 whose attempts all fail with
\* retriable failures makes exactly N attempts, never more, and fails only after
\* the N-th; and every call of download_url terminates.
C2_ExactlyNAttempts ==
    /\ []C2_ExactlyNAttemptsInv
    /\ <>(d_pc \in {"returned", "failed"})

\* C2 witness: three attempts were allowed, each got 503, and the call failed
\* after the third.
C2_Witness ==
    /\ d_pc = "failed"
    /\ max_retries = 3
    /\ requests = <<HTTPError(503), HTTPError(503), HTTPError(503)>>

\* C3: when a run of main given --max-retries N and at least one --url has ended,
\* every --url was downloaded by download_url calls allowed N attempts.
C3_MaxRetriesOptionUsed ==
    (m_pc = "exited" /\ exit_code # 2) =>
        \A k \in 1..Len(args.url) :
            \E i \in 1..Len(calls) : calls[i].max_retries = args.max_retries

SectionRank(at) ==
    CASE at = "first_loop" -> 1
      [] at = "second_loop" -> 2
      [] at = "original" -> 3
      [] at = "default_gateway" -> 4
      [] at = "final" -> 5

\* the call calls[i] comes before calls[j] in the order of preference: an earlier
\* section, or the same loop and an earlier gateway of ALTERNATIVE_GATEWAYS
Before(i, j) ==
    \/ SectionRank(calls[i].at) < SectionRank(calls[j].at)
    \/ calls[i].at = calls[j].at /\ calls[i].gw < calls[j].gw

\* C4: try_download_with_gateways tries its candidates one at a time in the fixed
\* order of preference; every candidate tried before the latest one has failed,
\* so none is tried after a success; the function returns exactly when a
\* candidate succeeded, with the text that candidate served; and it raises only
\* when every candidate it tried has failed.
C4_FirstSuccessWins ==
    /\ \A i \in 1..(Len(calls) - 1) : calls[i].status = "failed"
    /\ \A i, j \in 1..Len(calls) : i < j => Before(i, j)
    /\ (d_pc # "idle") = (Len(calls) > 0 /\ calls[Len(calls)].status = "running")
    /\ (g_pc = "returned") = (Len(calls) > 0 /\ calls[Len(calls)].status = "ok")
    /\ g_pc = "returned" =>
           /\ d_url = calls[Len(calls)].url
           /\ requests[Len(requests)] = Ok(g_result)
    /\ g_pc = "failed" => \A i \in 1..Len(calls) : calls[i].status = "failed"

\* C4 witness: for an IPFS locator the first two gateways failed, the third
\* served a playlist, and the function returned it without a fourth call.
C4_Witness ==
    /\ g_pc = "returned"
    /\ locals.is_ipfs_path
    /\ Len(calls) = 3
    /\ calls[1].status = "failed" /\ calls[2].status = "failed"
    /\ calls[3].gw = 3
    /\ g_result = "#EXTM3U"

\* C5: while try_download_with_gateways resolves one locator, no candidate url is
\* passed to download_url more than once.
C5_NoCandidateTwice ==
    \A i, j \in 1..Len(calls) : i # j => calls[i].url # calls[j].url

\* C6: for a locator with no /ipfs/ and no /ipns/ segment, try_download_with_gateways
\* has made exactly one download_url call, on the locator itself, when it ends.
C6_PlainLocatorOneCall ==
    (g_pc \in {"returned", "failed"} /\ ~locals.is_ipfs_path) =>
        /\ Len(calls) = 1
        /\ calls[1].url = original_url

Range(q) == {q[i] : i \in 1..Len(q)}

\* C7: when a run of main given at least one source has ended, main has processed
\* every --url and every --input of the command line.
C7_EverySourceProcessed ==
    (m_pc = "exited" /\ exit_code # 2) =>
        Range(args.url) \cup Range(args.input) \subseteq Range(m_log)

Exists(path) == path \in files

\* C8: when a run of main has ended, the combined file holds the parts of the
\* resolved remote sources, then the parts of the local sources that exist, each
\* group in the order of the command line.
C8_OutputInInputOrder ==
    (m_pc = "exited" /\ exit_code # 2 /\ \E k \in 1..Len(args.input) : Exists(args.input[k])) =>
        \E f \in 1..Len(out_files) :
            /\ out_files[f].name = "playlist.m3u"
            /\ \E n \in 0..Len(out_files[f].parts) :
                   /\ SubSeq(out_files[f].parts, 1, n) \in SeqsUpTo(Range(args.url), n)
                   /\ SubSeq(out_files[f].parts, n + 1, Len(out_files[f].parts))
                          = SelectSeq(args.input, Exists)

\* C9: a run given the remote sources A and C and the local source B, where B
\* exists, ends with a combined file that holds B's part, nothing from a source
\* other than B and C, and B's part before C's.
C9_LocalBeforeRemote ==
    (/\ m_pc = "exited"
     /\ args.url = <<"http://a.example/a.m3u", "http://c.example/c.m3u">>
     /\ args.input = <<"b.m3u">>
     /\ Exists("b.m3u")) =>
        \E f \in 1..Len(out_files) :
            /\ out_files[f].name = "playlist.m3u"
            /\ out_files[f].parts \in {<<"b.m3u">>, <<"b.m3u", "http://c.example/c.m3u">>}

\* C10: a run given at least one source, all of them local paths that do not
\* exist, so that no source resolves, ends with exit code 3.
C10_TotalFailureExits3 ==
    (/\ m_pc = "exited"
     /\ args.url = <<>> /\ args.input # <<>>
     /\ \A k \in 1..Len(args.input) : ~Exists(args.input[k])) =>
        exit_code = 3

\* C12: a run of main given at least one source, one of them a local path that
\* exists, and not a dry run, ends with exit code 0 and the combined file written;
\* a run given no source ends with exit code 2 and nothing written.
C12_RunWithSourceExits0 ==
    m_pc = "exited" =>
        /\ (args.url # <<>> \/ args.input # <<>>) => exit_code # 2
        /\ (~args.dry_run /\ \E k \in 1..Len(args.input) : Exists(args.input[k])) =>
               /\ exit_code = 0
               /\ \E f \in 1..Len(out_files) : out_files[f].name = "playlist.m3u"
        /\ exit_code = 2 => out_files = <<>>

\* C13: replace_acestream_and_existing applied to its own result, with the same
\* host and port, returns that result unchanged.
C13_RewriteIdempotent ==
    \A k \in 2..Len(r_text) : r_text[k] = r_text[k - 1]

\* the three surface syntaxes, each carrying the identifier ID and nothing else
SurfaceForms ==
    { pre \o ID : pre \in { "acestream://",
                            "1.2.3.4:6878/", "http://1.2.3.4:6878/", "https://tv.example:80/",
                            "1.2.3.4:6878/ace/getstream?id=",
                            "http://1.2.3.4:6878/ace/getstream?id=",
                            "https://tv.example:80/ace/getstream?id=" } }

\* C14: each surface syntax carrying ID is rewritten to the one text
\* http://{host}:{port}/ace/getstream?id=ID, nothing of the input left around it.
C14_SurfaceFormsRewriteAlike ==
    (r_input \in SurfaceForms /\ Len(r_text) >= 1) =>
        r_text[1] = "http://" \o r_host \o ":" \o DecimalOf(r_port)
                        \o "/ace/getstream?id=" \o ID

\* a recognized prefix followed by 41 hexadecimal characters
LongRunForms ==
    { pre \o Hex41 : pre \in { "acestream://", "1.2.3.4:6878/",
                               "http://1.2.3.4:6878/ace/getstream?id=" } }

\* C15: a recognized prefix followed by 41 hexadecimal characters is no match:
\* the rewrite returns the text unchanged.
C15_LongerHexRunNotMatched ==
    (r_input \in LongRunForms /\ Len(r_text) >= 1) => r_text[1] = r_input

\* the indices of a text where a line "#EXTM3U..." starts
MarkerLines(text) ==
    {i \in 0..(Len(text) - 1) :
        LiteralAt(text, i, "#EXTM3U") /\ (i = 0 \/ At(text, i - 1) = "\n")}

\* C16: a run of main given a local source that exists, and not a dry run, ends
\* with a combined file whose text has one #EXTM3U line, its first line.
C16_OneMarkerAtStart ==
    (/\ m_pc = "exited" /\ exit_code # 2 /\ ~args.dry_run
     /\ \E k \in 1..Len(args.input) : Exists(args.input[k])) =>
        \E f \in 1..Len(out_files) :
            /\ out_files[f].name = "playlist.m3u"
            /\ MarkerLines(out_files[f].text) = {0}

\* C17: download_url never returns the empty string: a response with an empty
\* body counts as a failed attempt.
C17_EmptyBodyIsFailure ==
    d_pc = "returned" => d_result # ""

\* C18: a run of main given a local source that exists, and not a dry run, ends
\* with the combined file written, and no combined file written is empty.
C18_CombinedNeverEmpty ==
    /\ \A f \in 1..Len(out_files) :
           out_files[f].name = "playlist.m3u" => out_files[f].text # ""
    /\ (/\ m_pc = "exited" /\ exit_code # 2 /\ ~args.dry_run
        /\ \E k \in 1..Len(args.input) : Exists(args.input[k])) =>
           \E f \in 1..Len(out_files) :
               out_files[f].name = "playlist.m3u" /\ out_files[f].text # ""

\* C19: every backup backup_file has made is still there with the content it was
\* made with.
C19_BackupsKeepContent ==
    \A k \in 1..Len(b_log) :
        /\ b_log[k].dest \in DOMAIN fs
        /\ fs[b_log[k].dest] = b_log[k].content

\* the path of the locator from its /ipfs/ or /ipns/ segment on, without query
\* and fragment
NamespacePath ==
    LET at == {Find(locals.path, "/ipfs/"), Find(locals.path, "/ipns/")} \ {-1}
    IN  Slice(locals.path, Min(at), Len(locals.path))

\* C20: every candidate built from a gateway is the gateway, the namespace path
\* of the locator, its query and its fragment, each once.
C20_CandidateKeepsPathQueryFragment ==
    \A k \in 1..Len(calls) :
        calls[k].at \in {"first_loop", "second_loop"} =>
            calls[k].url = RStripSlash(ALTERNATIVE_GATEWAYS[calls[k].gw])
                               \o NamespacePath
                               \o (IF locals.parsed.query # "" THEN "?" \o locals.parsed.query ELSE "")
                               \o (IF locals.parsed.fragment # "" THEN "#" \o locals.parsed.fragment ELSE "")

\* C21: in download_url the k-th wait follows the k-th attempt, which failed
\* with a retriable failure, and lasts 0.5 * 2^(k-1) seconds (500 * 2^(k-1) ms);
\* a wait lies between every two consecutive attempts, and none follows the last
\* attempt of a call, be it a success, a terminal failure or the max_retries-th.
C21_BackoffDoubles ==
    /\ \A k \in 1..Len(sleeps) :
           /\ sleeps[k] = 500 * (2 ^ (k - 1))
           /\ k <= Len(requests) /\ RetriableFailure(requests[k])
    /\ Len(requests) >= 1 =>
           Len(sleeps) = IF d_pc = "loop" /\ attempt < max_retries
                         THEN Len(requests)
                         ELSE Len(requests) - 1
    /\ Len(requests) = 0 => sleeps = <<>>

\* a call with max_retries = 3 has ended after three attempts: it has waited
\* 0.5 s and 1 s, and not after the third attempt
C21_Witness ==
    /\ d_pc \in {"returned", "failed"}
    /\ max_retries = 3 /\ Len(requests) = 3
    /\ sleeps = <<500, 1000>>

====
